---- MODULE Spec2Model ----
(***************************************************************************)
(* django_mongodb_engine.contrib: dotted-path filter rewriting             *)
(* (MongoDBQuerySet._filter_or_exclude), raw updates                       *)
(* (RawQueryMixin.raw_update) and Map/Reduce result iteration              *)
(* (MongoDBQuerySet.map_reduce / inline_map_reduce).                       *)
(*                                                                         *)
(* Python strings are modelled as sequences of one-character strings, so   *)
(* that endswith, split, replace and re.sub act on characters as they do   *)
(* in the source.  Python dicts are functions from keys to values.         *)
(***************************************************************************)
EXTENDS Integers, Sequences, FiniteSets, TLC

VARIABLES
    ON_PYPY,    \* whether the interpreter is PyPy (fixed when the module loads)
    opOrder,    \* the iteration order of ALL_OPERATORS in this process
    fields,     \* model._meta: the model's field descriptors, in order
    qsets,      \* the querysets created so far (index = identity)
    last,       \* what the most recent call did (history of one call)
    mr,         \* the sequence returned by the current map_reduce call
    driver      \* the calls made on the driver / update compiler, in order

vars == <<ON_PYPY, opOrder, fields, qsets, last, mr, driver>>

----------------------------------------------------------------------------
(* Bounds of the model *)

MaxPath == 2      \* path segments between the field and the last segment
MaxQS == 3        \* querysets alive in one behaviour
MaxDocs == 2      \* documents in a Map/Reduce result collection

----------------------------------------------------------------------------
(* Strings *)

s_items == <<"i", "t", "e", "m", "s">>
s_tags == <<"t", "a", "g", "s">>
s_name == <<"n", "a", "m", "e">>
s_sku == <<"s", "k", "u">>
s_origin == <<"o", "r", "i", "g", "i", "n">>
s_result == <<"r", "e", "s", "u", "l", "t">>
s_exact == <<"e", "x", "a", "c", "t">>
s_iexact == <<"i", "e", "x", "a", "c", "t">>
s_gt == <<"g", "t">>
s_gte == <<"g", "t", "e">>
s_lt == <<"l", "t">>
s_lte == <<"l", "t", "e">>
s_in == <<"i", "n">>
s_regex == <<"r", "e", "g", "e", "x">>
s_iregex == <<"i", "r", "e", "g", "e", "x">>
s_contains == <<"c", "o", "n", "t", "a", "i", "n", "s">>
s_icontains == <<"i", "c", "o", "n", "t", "a", "i", "n", "s">>

LOOKUP_SEP == <<"_", "_">>
DOT == <<".">>
HASH == <<"#">>

\* k[i:].startswith(s)
StartsWithAt(k, s, i) ==
    /\ i + Len(s) - 1 <= Len(k)
    /\ SubSeq(k, i, i + Len(s) - 1) = s

\* k.endswith(s)
EndsWith(k, s) ==
    /\ Len(s) <= Len(k)
    /\ SubSeq(k, Len(k) - Len(s) + 1, Len(k)) = s

\* s in k, for a non-empty s
Contains(k, s) == \E i \in 1..Len(k) : StartsWithAt(k, s, i)

\* k.replace(old, new): left to right, non-overlapping
RECURSIVE Replace(_, _, _)
Replace(k, old, new) ==
    IF k = <<>> THEN <<>>
    ELSE IF StartsWithAt(k, old, 1)
         THEN new \o Replace(SubSeq(k, Len(old) + 1, Len(k)), old, new)
         ELSE <<k[1]>> \o Replace(Tail(k), old, new)

\* k.split(sep)[0]
SplitFirst(k, sep) ==
    LET at == {i \in 1..Len(k) : StartsWithAt(k, sep, i)}
    IN  IF at = {} THEN k
        ELSE SubSeq(k, 1, (CHOOSE i \in at : \A j \in at : i <= j) - 1)

\* Mutant of ReSubTail: the tail is cut by its length instead of being matched
\* with its separator (k = k[:-len(s) - 2] + '#' + s).
ReSubTailSliced(k, s) ==
    IF EndsWith(k, s)
    THEN SubSeq(k, 1, Len(k) - Len(s) - Len(LOOKUP_SEP)) \o HASH \o s
    ELSE k

\* re.sub(LOOKUP_SEP + s + '$', '#' + s, k): s holds no regex metacharacter,
\* so the pattern matches only the literal tail "__" + s of the key.
ReSubTail(k, s) ==
    IF EndsWith(k, LOOKUP_SEP \o s)
    THEN SubSeq(k, 1, Len(k) - Len(s) - Len(LOOKUP_SEP)) \o HASH \o s
    ELSE k

\* k.split(sep)
RECURSIVE Split(_, _)
Split(k, sep) ==
    IF ~Contains(k, sep) THEN <<k>>
    ELSE LET head == SplitFirst(k, sep)
         IN  <<head>> \o Split(SubSeq(k, Len(head) + Len(sep) + 1, Len(k)), sep)

\* sep.join(segs)
RECURSIVE Join(_, _)
Join(segs, sep) ==
    IF segs = <<>> THEN <<>>
    ELSE IF Len(segs) = 1 THEN segs[1]
    ELSE segs[1] \o sep \o Join(Tail(segs), sep)

----------------------------------------------------------------------------
(* Operators and field types *)

\* keys of django_mongodb_engine.compiler.OPERATORS_MAP
OPERATORS_MAP ==
    {s_exact, s_iexact, s_gt, s_gte, s_lt, s_lte, s_in,
     s_regex, s_iregex, s_contains, s_icontains}

\* keys of django_mongodb_engine.compiler.NEGATED_OPERATORS_MAP
NEGATED_OPERATORS_MAP == {s_exact, s_gt, s_gte, s_lt, s_lte, s_in}

ALL_OPERATORS == OPERATORS_MAP \cup NEGATED_OPERATORS_MAP

MONGO_DOT_FIELDS == {"DictField", "ListField", "SetField", "EmbeddedModelField"}

\* One listing of ALL_OPERATORS; every operator that is a textual suffix of
\* another one comes before it here.
BaseOrder ==
    <<s_exact, s_gt, s_gte, s_lt, s_lte, s_in, s_regex, s_contains,
      s_iexact, s_iregex, s_icontains>>

\* The operators that have another operator as a proper suffix.
Shadowing ==
    {s \in ALL_OPERATORS : \E t \in ALL_OPERATORS : t # s /\ EndsWith(s, t)}

\* ALL_OPERATORS is the key list of a dict: its order is whatever the
\* interpreter's hashing gives.  The loop at line 112 stops at the first
\* operator the key ends with, so only the relative order of an operator
\* and its suffixes matters: one order per subset P of Shadowing (the
\* members of P moved to the front) covers every iteration order.
OrderOf(P) ==
    SelectSeq(BaseOrder, LAMBDA s : s \in P)
        \o SelectSeq(BaseOrder, LAMBDA s : s \notin P)

OperatorOrders == {OrderOf(P) : P \in SUBSET Shadowing}

----------------------------------------------------------------------------
(* Dicts *)

EmptyDict == [x \in {} |-> "none"]

Put(d, k, v) == [x \in (DOMAIN d) \cup {k} |-> IF x = k THEN v ELSE d[x]]

Del(d, k) == [x \in (DOMAIN d) \ {k} |-> d[x]]

\* dict(items)
RECURSIVE DictOf(_)
DictOf(items) ==
    IF items = <<>> THEN EmptyDict
    ELSE Put(DictOf(SubSeq(items, 1, Len(items) - 1)),
             items[Len(items)][1], items[Len(items)][2])

----------------------------------------------------------------------------
(* MongoDBQuerySet._filter_or_exclude *)

\* lines 112-116: mark the separator of the first operator the key ends
\* with, turn the other separators into dots, restore the marked one.
FirstMatch(k, order) ==
    LET hits == {i \in 1..Len(order) : EndsWith(k, order[i])}
    IN  IF hits = {} THEN 0 ELSE CHOOSE i \in hits : \A j \in hits : i <= j

RewriteKey(k, order) ==
    LET m == FirstMatch(k, order)
        marked == IF m = 0 THEN k ELSE ReSubTail(k, order[m])
    IN  Replace(Replace(marked, LOOKUP_SEP, DOT), HASH, LOOKUP_SEP)

\* self.model._meta.get_all_field_names()
AllFieldNames(flds) == {flds[i].name : i \in 1..Len(flds)}

\* lines 102-107
BaseFieldNames(flds) ==
    {flds[i].name : i \in {j \in 1..Len(flds) :
        /\ ~Contains(flds[j].name, DOT)
        /\ flds[j].type \in MONGO_DOT_FIELDS}}

\* lines 120-121: AbstractIterableField(...).contribute_to_class(model, f)
ContributeToClass(flds, f) ==
    Append(flds, [name |-> f, type |-> "AbstractIterableField"])

\* line 119
NeedsField(f, allNames) == Contains(f, DOT) /\ f \notin allNames

\* lines 109-121, over items = kwargs.items() (a list copy, in dict order);
\* allNames and baseNames are the lists computed before the loop.
RECURSIVE RewriteLoop(_, _, _, _, _, _)
RewriteLoop(items, kwargs, flds, allNames, baseNames, order) ==
    IF items = <<>> THEN [kwargs |-> kwargs, fields |-> flds]
    ELSE LET k == items[1][1]
             v == items[1][2]
             dotted == Contains(k, LOOKUP_SEP)
                         /\ SplitFirst(k, LOOKUP_SEP) \in baseNames
             k2 == IF dotted THEN RewriteKey(k, order) ELSE k
             kw2 == IF dotted THEN Put(Del(kwargs, k), k2, v) ELSE kwargs
             f == SplitFirst(k2, LOOKUP_SEP)
             flds2 == IF NeedsField(f, allNames)
                      THEN ContributeToClass(flds, f) ELSE flds
         IN  RewriteLoop(Tail(items), kw2, flds2, allNames, baseNames, order)

\* self.query.can_filter(): false once a slice has been taken
CanFilter(qs) == ~qs.sliced

\* Mutant of SliceAssertFails: the guard looks at the keyword filters only.
SliceAssertKwargsOnly(qs, args, items) == items # <<>> /\ ~CanFilter(qs)

\* lines 95-97
SliceAssertFails(qs, args, items) ==
    (args # <<>> \/ items # <<>>) /\ ~CanFilter(qs)

\* lines 123-126: clone.query.add_q(Q(*args, **kwargs)), negated or not
AddQ(qs, negate, args, kwargs) ==
    [qs EXCEPT !.query =
        Append(@, [negated |-> negate, args |-> args, kwargs |-> kwargs])]

\* Mutant of Clone: the receiver itself is used (clone = self).
CloneAlias(qs) == [obj |-> qs, fresh |-> FALSE]

\* self._clone(): a new queryset object holding a copy of the query
Clone(qs) == [obj |-> qs, fresh |-> TRUE]

\* The whole handler: what it raises or returns, and the model's fields
\* afterwards.
FilterOrExclude(qs, flds, order, negate, args, items) ==
    IF SliceAssertFails(qs, args, items)
    THEN [outcome |-> "AssertionError", self |-> qs, returned |-> <<>>,
          fresh |-> FALSE, passed |-> <<>>, fields |-> flds]
    ELSE LET clone == Clone(qs)
             loop == RewriteLoop(items, DictOf(items), flds,
                                 AllFieldNames(flds), BaseFieldNames(flds),
                                 order)
             added == AddQ(clone.obj, negate, args, loop.kwargs)
         IN  [outcome |-> "ok",
              self |-> IF clone.fresh THEN qs ELSE added,
              returned |-> <<added>>,
              fresh |-> clone.fresh,
              passed |-> <<loop.kwargs>>,
              fields |-> loop.fields]

----------------------------------------------------------------------------
(* The model class and the inputs of filter / exclude *)

\* The fields declared on the model: two document-like ones and a plain one.
DeclaredFields ==
    <<[name |-> s_items, type |-> "DictField"],
      [name |-> s_tags, type |-> "ListField"],
      [name |-> s_name, type |-> "CharField"]>>

\* MongoDBManager.get_query_set(): a queryset with no predicate, not sliced
EmptyQuerySet == [query |-> <<>>, sliced |-> FALSE]

Values == {"vA", "vB"}

Args == {<<>>, <<"Q1">>}

NoCall == [op |-> "none"]

Idle == [phase |-> "idle"]

\* every sequence of at most n elements of S
SeqsUpTo(S, n) == UNION {[1..m -> S] : m \in 0..n}

\* Filter keys field__seg1__...__segN[__last]
PathSegs == {s_sku, s_in}

LastSegs == ALL_OPERATORS \cup {s_origin, s_result, s_sku}

ProbeKeys ==
    {Join(<<f>> \o p \o t, LOOKUP_SEP) :
        f \in {s_items, s_tags, s_name},
        p \in SeqsUpTo(PathSegs, MaxPath),
        t \in {<<>>} \cup {<<l>> : l \in LastSegs}}

k_sku_gte == Join(<<s_items, s_sku, s_gte>>, LOOKUP_SEP)
k_sku_lte == Join(<<s_items, s_sku, s_lte>>, LOOKUP_SEP)
k_origin == Join(<<s_items, s_origin>>, LOOKUP_SEP)
k_name_exact == Join(<<s_name, s_exact>>, LOOKUP_SEP)
k_dotted_in == s_items \o DOT \o s_sku \o LOOKUP_SEP \o s_in

\* The filter / exclude calls that build a lineage of querysets: no filter at
\* all, positional predicates only, keyword filters only, and both.
LineageCalls ==
    {[negate |-> FALSE, args |-> <<>>, kwargs |-> EmptyDict],
     [negate |-> FALSE, args |-> <<"Q1">>, kwargs |-> EmptyDict],
     [negate |-> TRUE, args |-> <<>>,
      kwargs |-> Put(Put(EmptyDict, k_sku_gte, "vA"), k_sku_lte, "vB")],
     [negate |-> FALSE, args |-> <<>>, kwargs |-> Put(EmptyDict, k_origin, "vB")],
     [negate |-> TRUE, args |-> <<"Q1">>,
      kwargs |-> Put(EmptyDict, k_name_exact, "vA")],
     [negate |-> FALSE, args |-> <<>>,
      kwargs |-> Put(Put(EmptyDict, k_dotted_in, "vB"), k_sku_gte, "vA")]}

\* kwargs.items(): the dict's items in any order
ItemsOf(d) ==
    LET n == Cardinality(DOMAIN d)
    IN  {[i \in 1..n |-> <<s[i], d[s[i]]>>] :
            s \in {t \in [1..n -> DOMAIN d] :
                     \A i, j \in 1..n : i # j => t[i] # t[j]}}

----------------------------------------------------------------------------
(* Actions: filter / exclude and slicing *)

\* qsets[r].filter(*args, **kwargs) or .exclude(...)
Filter(r, negate, args, kwargs, items) ==
    \E res \in {FilterOrExclude(qsets[r], fields, opOrder, negate, args, items)} :
        \E made \in {res.outcome = "ok" /\ res.fresh} :
            /\ made => Len(qsets) < MaxQS
            /\ fields' = res.fields
            /\ qsets' = [qsets EXCEPT ![r] = res.self] \o
                            (IF made THEN res.returned ELSE <<>>)
            /\ last' = [op |-> "filter", recv |-> r, negate |-> negate,
                        args |-> args, kwargs |-> kwargs,
                        outcome |-> res.outcome, passed |-> res.passed,
                        clone |-> IF res.outcome # "ok" THEN 0
                                  ELSE IF made THEN Len(qsets) + 1 ELSE r,
                        qsetsBefore |-> qsets, fieldsBefore |-> fields]
            /\ UNCHANGED <<ON_PYPY, opOrder, mr, driver>>

\* qsets[r][:n]: Django clones the queryset and sets the limits on the clone
Slice(r) ==
    /\ Len(qsets) < MaxQS
    /\ ~qsets[r].sliced
    /\ qsets' = Append(qsets, [qsets[r] EXCEPT !.sliced = TRUE])
    /\ last' = [op |-> "slice", recv |-> r]
    /\ UNCHANGED <<ON_PYPY, opOrder, fields, mr, driver>>

FilterCall ==
    \E r \in 1..Len(qsets), c \in LineageCalls :
        \E items \in ItemsOf(c.kwargs) :
            Filter(r, c.negate, c.args, c.kwargs, items)

SliceCall == \E r \in 1..Len(qsets) : Slice(r)

\* One call filter(**{key: v}) on the manager's queryset
FilterProbe ==
    /\ last.op = "none"
    /\ \E key \in ProbeKeys, v \in Values, negate \in BOOLEAN :
          Filter(1, negate, <<>>, Put(EmptyDict, key, v), <<<<key, v>>>>)

\* Every iteration order of ALL_OPERATORS (filtering never reads ON_PYPY)
InitRewrite ==
    /\ ON_PYPY = FALSE
    /\ opOrder \in OperatorOrders
    /\ fields = DeclaredFields
    /\ qsets = <<EmptyQuerySet>>
    /\ last = NoCall
    /\ mr = Idle
    /\ driver = <<>>

NextRewrite == FilterProbe

SpecRewrite == InitRewrite /\ [][NextRewrite]_vars

\* The two extreme iteration orders: no key of LineageCalls ends with two
\* operators, so the order decides nothing here.
InitFilter ==
    /\ ON_PYPY = FALSE
    /\ opOrder \in {OrderOf({}), OrderOf(Shadowing)}
    /\ fields = DeclaredFields
    /\ qsets = <<EmptyQuerySet>>
    /\ last = NoCall
    /\ mr = Idle
    /\ driver = <<>>

NextFilter == FilterCall \/ SliceCall

SpecFilter == InitFilter /\ [][NextFilter]_vars

----------------------------------------------------------------------------
(* Claims about filter / exclude *)

LastFilterOk == last.op = "filter" /\ last.outcome = "ok"

\* The receiver of the last filter call was sliced when the call was made.
LastRecvSliced == last.op = "filter" /\ last.qsetsBefore[last.recv].sliced

\* A key whose first segment names a document-like field of the model.
IsDocKey(k, flds) ==
    \E i \in 1..Len(flds) :
        /\ flds[i].name = Split(k, LOOKUP_SEP)[1]
        /\ flds[i].type \in MONGO_DOT_FIELDS

\* field.seg1....segN__op
DottedWithOp(segs) ==
    Join(SubSeq(segs, 1, Len(segs) - 1), DOT) \o LOOKUP_SEP \o segs[Len(segs)]

\* C1: every key field__seg1__...__segN__op with a document-like field and
\* an operator of ALL_OPERATORS is passed to Q as field.seg1....segN__op,
\* with its value, whatever the iteration order of ALL_OPERATORS.
C1_OperatorKeyKeepsItsOperator ==
    LastFilterOk =>
        \A k \in DOMAIN last.kwargs :
            LET segs == Split(k, LOOKUP_SEP)
            IN  (/\ Len(segs) >= 2
                 /\ IsDocKey(k, last.fieldsBefore)
                 /\ segs[Len(segs)] \in ALL_OPERATORS)
                =>  /\ DottedWithOp(segs) \in DOMAIN last.passed[1]
                    /\ last.passed[1][DottedWithOp(segs)] = last.kwargs[k]

C2_SlicedFilterAlwaysFails ==
    LastRecvSliced =>
        /\ last.outcome = "AssertionError"
        /\ last.passed = <<>>
        /\ fields = last.fieldsBefore
        /\ qsets = last.qsetsBefore

\* C2 amended: on a sliced queryset the call fails exactly when it carries
\* a positional predicate or a keyword filter, and then nothing has been
\* rewritten, registered or cloned; with no filter at all it returns a clone.
C2_SlicedFilterFailsIffFiltered ==
    LastRecvSliced =>
        IF last.args # <<>> \/ DOMAIN last.kwargs # {}
        THEN /\ last.outcome = "AssertionError"
             /\ last.passed = <<>>
             /\ last.clone = 0
             /\ fields = last.fieldsBefore
             /\ qsets = last.qsetsBefore
        ELSE /\ last.outcome = "ok"
             /\ last.clone = Len(last.qsetsBefore) + 1
             /\ qsets[last.clone].sliced

\* C2's case: a sliced queryset was filtered on a document-like key and the
\* call failed.
C2_Witness ==
    /\ LastRecvSliced
    /\ k_sku_gte \in DOMAIN last.kwargs
    /\ last.outcome = "AssertionError"

\* C8: a successful filter / exclude call returns a new queryset, leaves
\* every existing queryset (the receiver included) as it was, and the new
\* queryset's query is the receiver's plus the one predicate of the call.
C8_FilterLeavesReceiver ==
    LastFilterOk =>
        /\ last.clone = Len(last.qsetsBefore) + 1
        /\ last.clone # last.recv
        /\ Len(qsets) = last.clone
        /\ SubSeq(qsets, 1, Len(last.qsetsBefore)) = last.qsetsBefore
        /\ qsets[last.clone].query =
               Append(last.qsetsBefore[last.recv].query,
                      [negated |-> last.negate, args |-> last.args,
                       kwargs |-> last.passed[1]])

\* C8's case: exclude with rewritten dotted keys on a queryset that already
\* holds a predicate.
C8_Witness ==
    /\ LastFilterOk
    /\ last.negate
    /\ Len(last.qsetsBefore[last.recv].query) >= 1
    /\ \E k \in DOMAIN last.passed[1] : Contains(k, DOT)

\* C10: the model never holds two field descriptors with the same name, and
\* a key whose first segment is a dotted name is never rewritten.
C10_FieldNamesUnique ==
    /\ \A i, j \in 1..Len(fields) : i # j => fields[i].name # fields[j].name
    /\ LastFilterOk =>
          \A k \in DOMAIN last.kwargs :
              Contains(SplitFirst(k, LOOKUP_SEP), DOT)
                  => k \in DOMAIN last.passed[1]

----------------------------------------------------------------------------
(* RawQueryMixin.raw_update *)

\* lines 38-39: QuerySet(self.model, RawQuery(self.model, raw_query), self._db)
GetRawQuerySet(raw_query) ==
    [query |-> [raw_query |-> raw_query], for_write |-> FALSE]

\* self.filter(q) on the manager: get_query_set()._filter_or_exclude(False, q)
ManagerFilter(q, flds, order) ==
    FilterOrExclude(EmptyQuerySet, flds, order, FALSE, <<q>>, <<>>)

\* Mutant of RawUpdateQuerySet: the dict too goes through self.filter.
RawUpdateAlwaysFilters(spec_or_q, flds, order) ==
    LET res == ManagerFilter(spec_or_q, flds, order)
    IN  [qs |-> [query |-> res.returned[1].query, for_write |-> FALSE],
         filterCalls |-> 1, fields |-> res.fields]

\* lines 58-61: the queryset the update runs on, the number of self.filter
\* calls made to get it, and the model's fields afterwards
RawUpdateQuerySet(spec_or_q, flds, order) ==
    IF spec_or_q.type = "dict"
    THEN [qs |-> GetRawQuerySet(spec_or_q.doc), filterCalls |-> 0,
          fields |-> flds]
    ELSE LET res == ManagerFilter(spec_or_q.q, flds, order)
         IN  [qs |-> [query |-> res.returned[1].query, for_write |-> FALSE],
              filterCalls |-> 1, fields |-> res.fields]

\* lines 18-21: connections[qs.db] is the write connection once _for_write
\* is set, the read connection before
CompilerForQueryset(qs, which) ==
    [which |-> which, query |-> qs.query,
     db |-> IF qs.for_write THEN "db_for_write" ELSE "db_for_read"]

\* lines 58-64
RawUpdateSteps(spec_or_q, update_dict, kwargs, flds, order) ==
    LET sel == RawUpdateQuerySet(spec_or_q, flds, order)
        queryset == [sel.qs EXCEPT !.for_write = TRUE]
        compiler == CompilerForQueryset(queryset, "SQLUpdateCompiler")
    IN  [calls |-> <<[call |-> "execute_update", compiler |-> compiler,
                      update |-> update_dict, options |-> kwargs]>>,
         filterCalls |-> sel.filterCalls,
         fields |-> sel.fields]

----------------------------------------------------------------------------
(* MongoDBQuerySet.map_reduce / inline_map_reduce *)

\* self.model
ModelName == "Order"

\* A driver entity {'_id': k, 'value': v}
Entity(k, v) == ("_id" :> k) @@ ("value" :> v)

Entities == {Entity("k1", "v1"), Entity("k2", "v2"), Entity("k3", "v1")}

\* What the driver's find() / inline_map_reduce can return: at most MaxDocs
\* entities, each _id once
Docs ==
    {d \in SeqsUpTo(Entities, MaxDocs) :
        \A i, j \in 1..Len(d) : i # j => d[i] # d[j]}

\* Mutant of FromEntity: key and value are taken from the wrong entries.
FromEntitySwapped(model, entity) ==
    [model |-> model, key |-> entity["value"], value |-> entity["_id"]]

\* lines 83-85: MapReduceResult.from_entity
FromEntity(model, entity) ==
    [model |-> model, key |-> entity["_id"], value |-> entity["value"]]

\* lines 187-188 with 18-21: the compiler's build_query(); mongo_query is the
\* driver filter document the compiler derives from the queryset's query
GetQuery(qs) == [mongo_query |-> [compiled |-> qs.query]]

\* Mutant of PopDropCollection: the keyword is read and left in place
\* (kwargs.get instead of kwargs.pop).
PopDropCollectionKeeps(kwargs) ==
    [value |-> IF "drop_collection" \in DOMAIN kwargs
               THEN kwargs["drop_collection"] ELSE FALSE,
     rest |-> kwargs]

\* kwargs.pop('drop_collection', False)
PopDropCollection(kwargs) ==
    [value |-> IF "drop_collection" \in DOMAIN kwargs
               THEN kwargs["drop_collection"] ELSE FALSE,
     rest |-> Del(kwargs, "drop_collection")]

\* kwargs.setdefault(k, v)
SetDefault(kwargs, k, v) == IF k \in DOMAIN kwargs THEN kwargs ELSE Put(kwargs, k, v)

\* Mutant of GeneratorFinally: the finally suite drops nothing.
GeneratorFinallyNothing(drop_collection) == <<>>

\* lines 163-165: the generator's finally suite
GeneratorFinally(drop_collection) ==
    IF drop_collection THEN <<[call |-> "drop"]>> ELSE <<>>

\* lines 159-165: calling the generator function creates the generator and
\* runs none of its body
MapReduceCpython(docs, drop_collection) ==
    [calls |-> <<>>,
     mr |-> [phase |-> "returned", kind |-> "generator", gen |-> "created",
             drop |-> drop_collection, docs |-> docs, cursor |-> <<>>,
             items |-> <<>>, delivered |-> <<>>,
             exhausted |-> FALSE, abandoned |-> FALSE]]

\* lines 167-172: the whole collection is read into a list, the collection
\* is dropped, and an iterator over the list is returned
MapReducePypyDropCollectionHack(docs) ==
    [calls |-> <<[call |-> "find"], [call |-> "drop"]>>,
     mr |-> [phase |-> "returned", kind |-> "listiter", gen |-> "none",
             drop |-> TRUE, docs |-> docs, cursor |-> <<>>,
             items |-> [i \in 1..Len(docs) |-> FromEntity(ModelName, docs[i])],
             delivered |-> <<>>,
             exhausted |-> FALSE, abandoned |-> FALSE]]

\* lines 141-157; docs is what the job left in the result collection
MapReduceSteps(qs, onPypy, args, kwargs, docs) ==
    LET popped == PopDropCollection(kwargs)
        query == GetQuery(qs)
        passed == SetDefault(popped.rest, "query", query.mongo_query)
        job == [call |-> "map_reduce", args |-> args, kwargs |-> passed]
        seq == IF popped.value /\ onPypy
               THEN MapReducePypyDropCollectionHack(docs)
               ELSE MapReduceCpython(docs, popped.value)
    IN  [calls |-> <<job>> \o seq.calls, mr |-> seq.mr]

\* lines 182-185; docs is what the driver's inline_map_reduce returns
InlineMapReduceSteps(qs, args, kwargs, docs) ==
    LET query == GetQuery(qs)
        passed == SetDefault(kwargs, "query", query.mongo_query)
    IN  [calls |-> <<[call |-> "inline_map_reduce", args |-> args,
                      kwargs |-> passed]>>,
         result |-> [i \in 1..Len(docs) |-> FromEntity(ModelName, docs[i])]]

\* lines 160-165: next() on the generator runs its body from where it stands
\* to the next yield, or to its end through the finally suite
GeneratorNext(m) ==
    LET started == m.gen = "created"
        found == IF started THEN <<[call |-> "find"]>> ELSE <<>>
        cursor == IF started THEN m.docs ELSE m.cursor
    IN  IF cursor # <<>>
        THEN [calls |-> found,
              mr |-> [m EXCEPT !.gen = "suspended", !.cursor = Tail(cursor),
                        !.delivered = Append(@, FromEntity(ModelName, Head(cursor)))]]
        ELSE [calls |-> found \o GeneratorFinally(m.drop),
              mr |-> [m EXCEPT !.gen = "closed", !.cursor = <<>>,
                        !.exhausted = TRUE]]

\* next() on iter([...])
ListIterNext(m) ==
    IF m.items # <<>>
    THEN [calls |-> <<>>,
          mr |-> [m EXCEPT !.items = Tail(@),
                    !.delivered = Append(@, Head(m.items))]]
    ELSE [calls |-> <<>>, mr |-> [m EXCEPT !.exhausted = TRUE]]

\* The consumer lets go of the sequence.  A generator is closed when it is
\* collected: GeneratorExit is raised at the yield it is suspended at, which
\* runs the finally suite; a generator that never started runs nothing.
SequenceClose(m) ==
    IF m.kind = "generator" /\ m.gen = "suspended"
    THEN [calls |-> GeneratorFinally(m.drop),
          mr |-> [m EXCEPT !.gen = "closed", !.abandoned = TRUE]]
    ELSE IF m.kind = "generator"
    THEN [calls |-> <<>>, mr |-> [m EXCEPT !.gen = "closed", !.abandoned = TRUE]]
    ELSE [calls |-> <<>>, mr |-> [m EXCEPT !.abandoned = TRUE]]

----------------------------------------------------------------------------
(* Actions: raw_update, map_reduce, inline_map_reduce and the consumer *)

\* A driver filter document handed in by the caller as query=...
CallerQuery ==
    [compiled |-> <<[negated |-> FALSE, args |-> <<"CallerQ">>,
                     kwargs |-> EmptyDict]>>]

\* The keyword arguments of a map_reduce / inline_map_reduce call
MapReduceKwargs ==
    {d \o q : d \in {<<>>, <<<<"drop_collection", TRUE>>>>,
                     <<<<"drop_collection", FALSE>>>>},
              q \in {<<>>, <<<<"query", CallerQuery>>>>}}

MapReduceArgs == <<"map_f", "reduce_f", "out">>

SpecOrQ ==
    {[type |-> "dict", doc |-> "status_pending"],
     [type |-> "dict", doc |-> "match_all"],
     [type |-> "Q", q |-> "Q1"]}

UpdateDicts == {"set_status_shipped", "inc_count"}

UpdateOptions == {EmptyDict, Put(EmptyDict, "upsert", TRUE)}

\* No sequence of an earlier map_reduce call is still being consumed.
NoneInFlight ==
    IF mr.phase = "idle" THEN TRUE ELSE (mr.exhausted \/ mr.abandoned)

RawUpdate ==
    /\ NoneInFlight
    /\ \E spec_or_q \in SpecOrQ, update_dict \in UpdateDicts,
          kwargs \in UpdateOptions :
          \E res \in {RawUpdateSteps(spec_or_q, update_dict, kwargs,
                                     fields, opOrder)} :
              /\ driver' = res.calls
              /\ fields' = res.fields
              /\ last' = [op |-> "raw_update", spec_or_q |-> spec_or_q,
                          update_dict |-> update_dict, kwargs |-> kwargs,
                          filterCalls |-> res.filterCalls]
              /\ mr' = Idle
    /\ UNCHANGED <<ON_PYPY, opOrder, qsets>>

MapReduce ==
    /\ NoneInFlight
    /\ \E r \in 1..Len(qsets), kw \in MapReduceKwargs, docs \in Docs :
          \E res \in {MapReduceSteps(qsets[r], ON_PYPY, MapReduceArgs,
                                     DictOf(kw), docs)} :
              /\ driver' = res.calls
              /\ mr' = res.mr
              /\ last' = [op |-> "map_reduce", recv |-> r,
                          args |-> MapReduceArgs, kwargs |-> DictOf(kw)]
    /\ UNCHANGED <<ON_PYPY, opOrder, fields, qsets>>

InlineMapReduce ==
    /\ NoneInFlight
    /\ \E r \in 1..Len(qsets), kw \in MapReduceKwargs, docs \in Docs :
          \E res \in {InlineMapReduceSteps(qsets[r], MapReduceArgs,
                                           DictOf(kw), docs)} :
              /\ driver' = res.calls
              /\ mr' = Idle
              /\ last' = [op |-> "inline_map_reduce", recv |-> r,
                          args |-> MapReduceArgs, kwargs |-> DictOf(kw),
                          docs |-> docs, result |-> res.result]
    /\ UNCHANGED <<ON_PYPY, opOrder, fields, qsets>>

\* The consumer asks the returned sequence for its next entry.
Advance ==
    /\ mr.phase = "returned"
    /\ ~mr.exhausted
    /\ ~mr.abandoned
    /\ \E res \in {IF mr.kind = "generator" THEN GeneratorNext(mr)
                                            ELSE ListIterNext(mr)} :
          /\ driver' = driver \o res.calls
          /\ mr' = res.mr
    /\ UNCHANGED <<ON_PYPY, opOrder, fields, qsets, last>>

\* The consumer abandons the returned sequence before seeing its end.
Abandon ==
    /\ mr.phase = "returned"
    /\ ~mr.exhausted
    /\ ~mr.abandoned
    /\ \E res \in {SequenceClose(mr)} :
          /\ driver' = driver \o res.calls
          /\ mr' = res.mr
    /\ UNCHANGED <<ON_PYPY, opOrder, fields, qsets, last>>

\* Either interpreter; the manager's queryset and one that holds a predicate
InitDriver ==
    /\ ON_PYPY \in BOOLEAN
    /\ opOrder = BaseOrder
    /\ fields = DeclaredFields
    /\ qsets = <<EmptyQuerySet,
                 AddQ(EmptyQuerySet, FALSE, <<"Q1">>, EmptyDict)>>
    /\ last = NoCall
    /\ mr = Idle
    /\ driver = <<>>

NextDriver == RawUpdate \/ MapReduce \/ InlineMapReduce \/ Advance \/ Abandon

SpecDriver == InitDriver /\ [][NextDriver]_vars

----------------------------------------------------------------------------
(* Claims about raw_update and Map/Reduce *)

\* The number of calls of one kind made on the driver by the current operation
Count(call) == Cardinality({i \in 1..Len(driver) : driver[i].call = call})

\* The result entries a result collection holding docs stands for
Expected(docs) ==
    [i \in 1..Len(docs) |->
        [model |-> ModelName, key |-> docs[i]["_id"], value |-> docs[i]["value"]]]

\* C3: with drop_collection true the result collection has been dropped
\* once the consumer has read the sequence to its end, on either
\* interpreter; with drop_collection false or omitted it is never dropped.
C3_DroppedAfterFullConsumption ==
    mr.phase = "returned" =>
        /\ (mr.drop /\ mr.exhausted) => Count("drop") >= 1
        /\ ~mr.drop => Count("drop") = 0

\* C3's case: the lazy sequence of a drop_collection=True call over two
\* documents was read to its end and the collection is dropped.
C3_Witness ==
    /\ mr.phase = "returned"
    /\ mr.kind = "generator"
    /\ mr.drop
    /\ mr.exhausted
    /\ Len(mr.delivered) >= 2
    /\ Count("drop") = 1

\* C4: on the lazy path with drop_collection true, the result collection is
\* dropped whenever the consumer abandons the sequence, at whatever point.
C4_AbandonedLazySequenceIsDropped ==
    mr.phase = "returned" =>
        ((mr.kind = "generator" /\ mr.drop /\ mr.abandoned)
            => Count("drop") >= 1)

\* C5: raw_update issues exactly one execute_update, carrying the update
\* document and the options, built by the update compiler on the write
\* connection; a dict is never routed through self.filter and is held,
\* as it is, by a RawQuery; anything else is routed through self.filter.
C5_RawUpdateIssuesOneUpdate ==
    last.op = "raw_update" =>
        /\ Len(driver) = 1
        /\ driver[1].call = "execute_update"
        /\ driver[1].update = last.update_dict
        /\ driver[1].options = last.kwargs
        /\ driver[1].compiler.which = "SQLUpdateCompiler"
        /\ driver[1].compiler.db = "db_for_write"
        /\ (last.spec_or_q.type = "dict") <=> (last.filterCalls = 0)
        /\ (last.spec_or_q.type = "dict") =>
               driver[1].compiler.query = [raw_query |-> last.spec_or_q.doc]

\* C5's case: raw_update with a filter dict and driver options has run.
C5_Witness ==
    /\ last.op = "raw_update"
    /\ last.spec_or_q = [type |-> "dict", doc |-> "status_pending"]
    /\ DOMAIN last.kwargs # {}
    /\ Len(driver) = 1

\* C6 as stated: the 'query' option of every map_reduce and
\* inline_map_reduce job is the queryset's mongo_query, whatever the caller
\* passes, and drop_collection is never forwarded.
C6_QueryIsAlwaysQuerysetFilter ==
    last.op \in {"map_reduce", "inline_map_reduce"} =>
        /\ driver[1].kwargs["query"] = GetQuery(qsets[last.recv]).mongo_query
        /\ "drop_collection" \notin DOMAIN driver[1].kwargs

\* C6 amended: each call runs one job with the caller's positional
\* arguments; its 'query' option is the queryset's mongo_query unless the
\* caller passes a 'query' keyword, which is then forwarded as it is;
\* map_reduce never forwards drop_collection, inline_map_reduce forwards it
\* when the caller passes it.
C6_QueryDefaultsToQuerysetFilter ==
    last.op \in {"map_reduce", "inline_map_reduce"} =>
        /\ Count(last.op) = 1
        /\ driver[1].call = last.op
        /\ driver[1].args = last.args
        /\ driver[1].kwargs["query"] =
              IF "query" \in DOMAIN last.kwargs
              THEN last.kwargs["query"]
              ELSE GetQuery(qsets[last.recv]).mongo_query
        /\ (last.op = "map_reduce")
              => "drop_collection" \notin DOMAIN driver[1].kwargs
        /\ (last.op = "inline_map_reduce")
              => ("drop_collection" \in DOMAIN driver[1].kwargs
                    <=> "drop_collection" \in DOMAIN last.kwargs)

\* C6's case: map_reduce(drop_collection=True) with no 'query' keyword on a
\* queryset that holds a predicate.
C6_Witness ==
    /\ last.op = "map_reduce"
    /\ Len(qsets[last.recv].query) >= 1
    /\ "query" \notin DOMAIN last.kwargs
    /\ "drop_collection" \in DOMAIN last.kwargs
    /\ driver[1].kwargs["query"] = GetQuery(qsets[last.recv]).mongo_query

\* C9: with drop_collection true the eager path is taken exactly on PyPy;
\* read to the end, either path has delivered one entry per document, in
\* find() order, and dropped the collection exactly once; the eager path has
\* read every document and dropped the collection when map_reduce returns,
\* the lazy path has read and dropped nothing before the first advance.
C9_EagerAndLazyAgree ==
    (mr.phase = "returned" /\ mr.drop) =>
        /\ (mr.kind = "listiter") <=> ON_PYPY
        /\ mr.exhausted =>
              /\ mr.delivered = Expected(mr.docs)
              /\ Count("find") = 1
              /\ Count("drop") = 1
        /\ (mr.kind = "listiter") =>
              /\ mr.delivered \o mr.items = Expected(mr.docs)
              /\ Count("find") = 1
              /\ Count("drop") = 1
        /\ (mr.kind = "generator" /\ mr.gen = "created") =>
              /\ mr.delivered = <<>>
              /\ Count("find") = 0
              /\ Count("drop") = 0
        /\ (mr.kind = "generator" /\ mr.gen = "suspended") =>
              /\ mr.delivered \o Expected(mr.cursor) = Expected(mr.docs)
              /\ Count("drop") = 0

\* C9's case: the eager sequence over two documents was read to its end.
C9_Witness ==
    /\ mr.phase = "returned"
    /\ mr.kind = "listiter"
    /\ mr.exhausted
    /\ Len(mr.delivered) >= 2

====
